---- MODULE Spec2Model ----
(***************************************************************************)
(* Model of uiverse.js: a viewport breakpoint tracker (ScreenSize) and     *)
(* five utility-class managers (SpaceManager, ZIndexManager,               *)
(* OpacityManager, BorderRadiusManager, FontSizeManager) owned by a        *)
(* CSSManager.  Class names are sequences of one-character strings so that *)
(* the regular expressions of the source are modelled by what they match.  *)
(* Time is in milliseconds.                                                *)
(***************************************************************************)
EXTENDS Integers, Sequences, FiniteSets, TLC

\* ------------------------------------------------------------------ bounds

\* most mutation records queued before the observers are notified
MaxPending == 2
\* most resize events counted in one burst
MaxBurst == 3

\* ------------------------------------------------------- program constants

\* ScreenSize.constructor: debounce(..., 300)
DebounceDelay == 300
\* SpaceManager.observeDomChanges: throttle(..., 300)
ThrottleDelay == 300

\* ------------------------------------------------------------ class names

cP8 == <<"p", "-", "8">>
cM4n == <<"m", "-", "4", "n">>
cZ3n == <<"z", "-", "3", "n">>
cZ5 == <<"z", "-", "5">>
cZ5n == <<"z", "-", "5", "n">>
cZn == <<"z", "-", "n">>
cOp0 == <<"o", "p", "a", "c", "i", "t", "y", "-", "0">>
cOp1 == <<"o", "p", "a", "c", "i", "t", "y", "-", "1">>
cOp10 == <<"o", "p", "a", "c", "i", "t", "y", "-", "1", "0">>
cOp11 == <<"o", "p", "a", "c", "i", "t", "y", "-", "1", "1">>
cRounded12 == <<"r", "o", "u", "n", "d", "e", "d", "-", "1", "2">>
cFs20 == <<"f", "s", "-", "2", "0">>

\* viewport widths around every threshold of getDeviceTypeAndContainer
AllWidths == {0, 575, 576, 767, 768, 991, 992, 1199, 1200, 1399, 1400, 1920}

\* the class lists over names: a classList holds no name twice
ClassLists(names) ==
  {l \in UNION {[1..n -> names] : n \in 0..Cardinality(names)} :
     \A i, j \in 1..Len(l) : i # j => l[i] # l[j]}

\* one class name for every prefix /([mp][trblxy]?)-(\d+)(n)?/ can match
SpaceNames ==
  {<<a>> \o b \o <<"-", "6">> :
     a \in {"m", "p"},
     b \in {<<>>, <<"t">>, <<"r">>, <<"b">>, <<"l">>, <<"x">>, <<"y">>}}

\* The pages explored: the class names the page's script adds and removes,
\* the class lists an element can carry at load, the elements the page
\* creates, the viewport's width at load, the widths it is resized to and the
\* amounts of time that pass between two events.
Scenarios ==
  { [vocab |-> {cZ3n, cZ5}, lists |-> ClassLists({cZ3n, cZ5}), elems |-> {"e1"},
     width |-> {575}, widths |-> {768}, ticks |-> {300}],
    [vocab |-> {cP8, cM4n}, lists |-> ClassLists({cP8, cM4n}), elems |-> {"e1"},
     width |-> {575}, widths |-> {}, ticks |-> {100, 200}],
    [vocab |-> {cOp0, cOp1, cOp10, cOp11},
     lists |-> ClassLists({cOp0, cOp1, cOp10, cOp11}), elems |-> {"e1"},
     width |-> {575}, widths |-> {}, ticks |-> {300}],
    [vocab |-> {cRounded12, cFs20}, lists |-> ClassLists({cRounded12, cFs20}),
     elems |-> {"e1"}, width |-> {575}, widths |-> {}, ticks |-> {300}],
    [vocab |-> {cOp1}, lists |-> ClassLists({cOp1}), elems |-> {"e1", "e2"},
     width |-> {575}, widths |-> {}, ticks |-> {300}],
    [vocab |-> {}, lists |-> {<<>>}, elems |-> {}, width |-> AllWidths,
     widths |-> AllWidths, ticks |-> {100, 200}],
    [vocab |-> {}, lists |-> {<<>>, <<cP8, cRounded12, cZ5n, cFs20>>},
     elems |-> {"e1", "e2"}, width |-> {575}, widths |-> {768}, ticks |-> {300}] }
  \cup
  { [vocab |-> {c}, lists |-> ClassLists({c}), elems |-> {"e1"},
     width |-> {575}, widths |-> {}, ticks |-> {300}] : c \in SpaceNames \cup {cZn} }

Elements == UNION {sc.elems : sc \in Scenarios}

Managers ==
  {"SpaceManager", "ZIndexManager", "OpacityManager", "BorderRadiusManager",
   "FontSizeManager"}

\* the managers that own one live stylesheet (this.styleSheet)
SheetManagers == Managers \ {"SpaceManager"}

\* ---------------------------------------------------------------- helpers

Min(S) == CHOOSE x \in S : \A y \in S : x <= y

Range(s) == {s[i] : i \in 1..Len(s)}

Digits == <<"0", "1", "2", "3", "4", "5", "6", "7", "8", "9">>

IsDigit(ch) == \E i \in 1..Len(Digits) : Digits[i] = ch

DigitValue(ch) == (CHOOSE i \in 1..Len(Digits) : Digits[i] = ch) - 1

\* parseInt(number, 10) of a non-empty run of decimal digits
RECURSIVE ParseInt(_)
ParseInt(number) ==
  IF number = <<>> THEN 0
  ELSE 10 * ParseInt(SubSeq(number, 1, Len(number) - 1))
         + DigitValue(number[Len(number)])

\* the decimal digits of a natural number
RECURSIVE DigitsOf(_)
DigitsOf(x) ==
  IF x < 10 THEN <<Digits[x + 1]>>
  ELSE Append(DigitsOf(x \div 10), Digits[(x % 10) + 1])

Abs(x) == IF x < 0 THEN -x ELSE x

\* the sign Number::toString and toFixed write: none for zero, even for -0
Sign(x) == IF x < 0 THEN <<"-">> ELSE <<>>

\* `${x}` for an integer x: Number::toString as a template literal applies it
NumberToString(x) == Sign(x) \o DigitsOf(Abs(x))

\* `${x}` for x = tenths / 10 with 1 <= tenths <= 10
TenthsToString(tenths) ==
  IF tenths % 10 = 0 THEN DigitsOf(tenths \div 10)
  ELSE DigitsOf(tenths \div 10) \o <<".", Digits[(tenths % 10) + 1]>>

\* toFixed keeping one fraction digit instead of two
toFixedOne(hundredths) ==
  Sign(hundredths) \o DigitsOf(Abs(hundredths) \div 100)
    \o <<".", Digits[((Abs(hundredths) % 100) \div 10) + 1]>>

\* x.toFixed(2) for x = hundredths / 100: a multiple of 0.25 is exact in
\* binary floating point, so no rounding takes place
toFixed(hundredths) ==
  Sign(hundredths) \o DigitsOf(Abs(hundredths) \div 100)
    \o <<".", Digits[((Abs(hundredths) % 100) \div 10) + 1],
          Digits[(Abs(hundredths) % 10) + 1]>>

\* lit occurs in s at index i
PrefixAt(s, i, lit) ==
  /\ i + Len(lit) - 1 <= Len(s)
  /\ \A k \in 1..Len(lit) : s[i + k - 1] = lit[k]

\* String.prototype.startsWith
StartsWith(s, lit) == PrefixAt(s, 1, lit)

\* the attribute selector [class*="lit"] on one class token
Contains(s, lit) == \E i \in 1..Len(s) : PrefixAt(s, i, lit)

\* \d+ is greedy: the index after the run of digits that starts at i
RECURSIVE DigitRunEnd(_, _)
DigitRunEnd(s, i) ==
  IF i <= Len(s) /\ IsDigit(s[i]) THEN DigitRunEnd(s, i + 1) ELSE i

\* the groups of a match of /lit(\d+)(n)?/ whose digits are s[d0..d1-1]
MatchGroups(s, d0, d1) ==
  <<[number |-> SubSeq(s, d0, d1 - 1), n |-> (d1 <= Len(s) /\ s[d1] = "n")]>>

\* the match whose literal ends before d0: \d+ takes every digit it can
MatchAt(s, d0) == MatchGroups(s, d0, DigitRunEnd(s, d0))

\* a regular expression search takes the leftmost start that matches
MatchFirst(s, lit, idx) == IF idx = {} THEN <<>> ELSE MatchAt(s, Min(idx) + Len(lit))

\* s.match(/lit(\d+)(n)?/): <<>> is null, otherwise <<[number, n]>>
MatchDigits(s, lit) ==
  MatchFirst(s, lit, {i \in 1..Len(s) :
                        /\ PrefixAt(s, i, lit)
                        /\ i + Len(lit) <= Len(s)
                        /\ IsDigit(s[i + Len(lit)])})

\* ------------------------------------------------------------------ state

VARIABLES
  pc,          \* the last step of the script that has completed
  vocab,       \* the class names the page uses
  elems,       \* the elements the page creates
  widths,      \* the widths the window is resized to
  ticks,       \* the amounts of time that pass between two events
  body,        \* the elements under document.body, in document order
  classList,   \* element -> its class names, in order, without duplicates
  innerWidth,  \* window.innerWidth
  adopted,     \* document.adoptedStyleSheets
  processed,   \* manager -> processedClassNames / processedClasses
  styleSheet,  \* manager -> the rules of this.styleSheet
  observers,   \* the MutationObservers, in creation order
  timers,      \* time left on each pending timeout of the debounced handler
  pending,     \* mutation records queued and not yet delivered
  fired,       \* updateDeviceType calls by the timer since the last resize event
  quiet,       \* time since the last resize event, up to DebounceDelay
  events,      \* resize events of the latest burst
  rescan       \* [processed, sheet] of an opacity manager that instead runs
               \* applyInitialOpacityStyles on every notification

vars ==
  <<pc, vocab, elems, widths, ticks, body, classList, innerWidth, adopted, processed,
    styleSheet, observers, timers, pending, fired, quiet, events, rescan>>

\* ------------------------------------------------------------- ScreenSize

\* getDeviceTypeAndContainer with every threshold compared by <= instead of <
getDeviceTypeAndContainerInclusive(width) ==
  IF width <= 576 THEN [deviceType |-> "xs", container |-> "100%"]
  ELSE IF width <= 768 THEN [deviceType |-> "sm", container |-> "540px"]
  ELSE IF width <= 992 THEN [deviceType |-> "md", container |-> "720px"]
  ELSE IF width <= 1200 THEN [deviceType |-> "lg", container |-> "960px"]
  ELSE IF width <= 1400 THEN [deviceType |-> "xl", container |-> "1140px"]
  ELSE [deviceType |-> "xxl", container |-> "1320px"]

\* ScreenSize.getDeviceTypeAndContainer, for window.innerWidth = width
getDeviceTypeAndContainer(width) ==
  IF width < 576 THEN [deviceType |-> "xs", container |-> "100%"]
  ELSE IF width < 768 THEN [deviceType |-> "sm", container |-> "540px"]
  ELSE IF width < 992 THEN [deviceType |-> "md", container |-> "720px"]
  ELSE IF width < 1200 THEN [deviceType |-> "lg", container |-> "960px"]
  ELSE IF width < 1400 THEN [deviceType |-> "xl", container |-> "1140px"]
  ELSE [deviceType |-> "xxl", container |-> "1320px"]

\* the sheet ScreenSize.setCssVariables builds: one :root rule with one
\* declaration per entry of variables, in order
RootSheet(variables) ==
  [owner |-> "ScreenSize", live |-> FALSE,
   rules |-> <<[selector |-> <<":", "r", "o", "o", "t">>,
                decls |-> [i \in 1..Len(variables) |->
                             [prop |-> <<variables[i][1]>>,
                              val |-> variables[i][2]]]]>>]

\* setCssVariables adding its sheet to the adopted sheets instead of
\* replacing them
setCssVariablesAppending(variables) == Append(adopted, RootSheet(variables))

\* ScreenSize.setCssVariables: the new value of document.adoptedStyleSheets
setCssVariables(variables) == <<RootSheet(variables)>>

\* ScreenSize.updateDeviceType: the new value of document.adoptedStyleSheets
updateDeviceType(width) ==
  LET dc == getDeviceTypeAndContainer(width)
  IN setCssVariables(<< <<"--device-type", dc.deviceType>>,
                        <<"--container", dc.container>> >>)

\* ----------------------------------------------------------- SpaceManager

cssPropertyMap ==
  (<<"m">> :> <<"margin">>) @@
  (<<"m", "t">> :> <<"margin", "-top">>) @@
  (<<"m", "b">> :> <<"margin", "-bottom">>) @@
  (<<"m", "l">> :> <<"margin", "-left">>) @@
  (<<"m", "r">> :> <<"margin", "-right">>) @@
  (<<"m", "x">> :> <<"margin", "-horizontal">>) @@
  (<<"m", "y">> :> <<"margin", "-vertical">>) @@
  (<<"p">> :> <<"padding">>) @@
  (<<"p", "t">> :> <<"padding", "-top">>) @@
  (<<"p", "b">> :> <<"padding", "-bottom">>) @@
  (<<"p", "l">> :> <<"padding", "-left">>) @@
  (<<"p", "r">> :> <<"padding", "-right">>) @@
  (<<"p", "x">> :> <<"padding", "-horizontal">>) @@
  (<<"p", "y">> :> <<"padding", "-vertical">>)

\* a replace whose search string is never found
ReplaceNothing(cssProperty, from, to) == cssProperty

\* String.prototype.replace on a property name held as its parts
Replace(cssProperty, from, to) ==
  [i \in 1..Len(cssProperty) |->
     IF cssProperty[i] = from /\ \A j \in 1..(i - 1) : cssProperty[j] # from
     THEN to ELSE cssProperty[i]]

\* [trblxy]
IsSide(ch) == ch \in {"t", "r", "b", "l", "x", "y"}

\* /([mp][trblxy]?)-(\d+)/ matches at i with the optional side letter
LongAt(input, i) ==
  /\ i + 3 <= Len(input)
  /\ input[i] \in {"m", "p"}
  /\ IsSide(input[i + 1])
  /\ input[i + 2] = "-"
  /\ IsDigit(input[i + 3])

\* /([mp][trblxy]?)-(\d+)/ matches at i without the side letter
ShortAt(input, i) ==
  /\ i + 2 <= Len(input)
  /\ input[i] \in {"m", "p"}
  /\ input[i + 1] = "-"
  /\ IsDigit(input[i + 2])

\* the groups of the match that starts at i, whose digits are input[d0..d1-1]
SpaceGroups(input, i, d0, d1) ==
  <<[styleType |-> SubSeq(input, i, d0 - 2),
     number |-> SubSeq(input, d0, d1 - 1),
     n |-> (d1 <= Len(input) /\ input[d1] = "n")]>>

SpaceMatchFrom(input, i, d0) == SpaceGroups(input, i, d0, DigitRunEnd(input, d0))

SpaceMatchAt(input, i) ==
  SpaceMatchFrom(input, i, IF LongAt(input, i) THEN i + 3 ELSE i + 2)

SpaceMatchFirst(input, idx) ==
  IF idx = {} THEN <<>> ELSE SpaceMatchAt(input, Min(idx))

\* input.match(/([mp][trblxy]?)-(\d+)(n)?/): <<>> or <<[styleType, number, n]>>
SpaceMatch(input) ==
  SpaceMatchFirst(input, {i \in 1..Len(input) : LongAt(input, i) \/ ShortAt(input, i)})

\* (parseInt(number, 10) * 0.25 * multiplier).toFixed(2); the product is
\* held in hundredths
SpaceValue(match) ==
  <<[styleType |-> match[1].styleType,
     styleValue |-> toFixed(ParseInt(match[1].number) * 25
                              * (IF match[1].n THEN -1 ELSE 1))]>>

\* SpaceManager.calculateSpaceValue: <<>> is null
calculateSpaceValue(input) ==
  IF SpaceMatch(input) = <<>> THEN <<>> ELSE SpaceValue(SpaceMatch(input))

\* `${styleDetails.styleValue}rem`
Rem(styleValue) == [text |-> styleValue, unit |-> "rem"]

\* the rule text SpaceManager.applyStyles appends for one class name
SpaceRule(className, cssProperty, styleValue) ==
  IF cssProperty \in {<<"margin", "-horizontal">>, <<"padding", "-horizontal">>}
  THEN [selector |-> className,
        decls |-> <<[prop |-> Replace(cssProperty, "-horizontal", "-left"),
                     val |-> Rem(styleValue)],
                    [prop |-> Replace(cssProperty, "-horizontal", "-right"),
                     val |-> Rem(styleValue)]>>]
  ELSE IF cssProperty \in {<<"margin", "-vertical">>, <<"padding", "-vertical">>}
  THEN [selector |-> className,
        decls |-> <<[prop |-> Replace(cssProperty, "-vertical", "-top"),
                     val |-> Rem(styleValue)],
                    [prop |-> Replace(cssProperty, "-vertical", "-bottom"),
                     val |-> Rem(styleValue)]>>]
  ELSE [selector |-> className,
        decls |-> <<[prop |-> cssProperty, val |-> Rem(styleValue)]>>]

\* Emit without the add to the processed set
EmitUnmarked(st, className, rule) ==
  [processed |-> st.processed, styles |-> Append(st.styles, rule)]

\* styles += rule; this.processed....add(className); st = [processed, styles]
Emit(st, className, rule) ==
  [processed |-> st.processed \cup {className}, styles |-> Append(st.styles, rule)]

\* the body of the inner forEach of SpaceManager.applyStyles once
\* calculateSpaceValue has answered styleDetails
SpaceEmit(st, className, styleDetails) ==
  IF styleDetails = <<>> THEN st
  ELSE IF styleDetails[1].styleType \in DOMAIN cssPropertyMap
  THEN Emit(st, className,
            SpaceRule(className, cssPropertyMap[styleDetails[1].styleType],
                      styleDetails[1].styleValue))
  ELSE st

\* SpaceStep without the test of processedClassNames
SpaceStepUnchecked(st, className) ==
  SpaceEmit(st, className, calculateSpaceValue(className))

\* the body of the inner forEach of SpaceManager.applyStyles
SpaceStep(st, className) ==
  IF className \in st.processed THEN st
  ELSE SpaceEmit(st, className, calculateSpaceValue(className))

\* ---------------------------------------------------------- ZIndexManager

\* calculateZIndex without the test of match: no match counts as zero
ZIndexValueOrZero(match) ==
  IF match # <<>>
  THEN <<ParseInt(match[1].number) * (IF match[1].n THEN -1 ELSE 1)>>
  ELSE <<0>>

\* parseInt(number, 10) * multiplier
ZIndexValue(match) ==
  IF match # <<>>
  THEN <<ParseInt(match[1].number) * (IF match[1].n THEN -1 ELSE 1)>>
  ELSE <<>>

\* ZIndexManager.calculateZIndex: <<>> is null
calculateZIndex(className) == ZIndexValue(MatchDigits(className, <<"z", "-">>))

ZIndexEmit(st, className, zIndex) ==
  IF zIndex # <<>>
  THEN Emit(st, className,
            [selector |-> className,
             decls |-> <<[prop |-> <<"z-index">>,
                          val |-> [text |-> NumberToString(zIndex[1]),
                                   unit |-> ""]]>>])
  ELSE st

\* ZIndexStep without the test of processedClasses
ZIndexStepUnchecked(st, className) ==
  ZIndexEmit(st, className, calculateZIndex(className))

\* the body of the inner forEach of ZIndexManager.applyZIndexStyles
ZIndexStep(st, className) ==
  IF className \notin st.processed
  THEN ZIndexEmit(st, className, calculateZIndex(className))
  ELSE st

\* --------------------------------------------------------- OpacityManager

\* the range test of calculateOpacity starting at 0 instead of 1
OpacityOfLevelFromZero(opacityLevel) ==
  IF opacityLevel >= 0 /\ opacityLevel <= 10
  THEN <<[num |-> opacityLevel, den |-> 10, unit |-> ""]>>
  ELSE <<>>

\* opacityLevel >= 1 && opacityLevel <= 10 ? opacityLevel / 10 : null
OpacityOfLevel(opacityLevel) ==
  IF opacityLevel >= 1 /\ opacityLevel <= 10
  THEN <<[num |-> opacityLevel, den |-> 10, unit |-> ""]>>
  ELSE <<>>

OpacityValue(match) ==
  IF match # <<>> THEN OpacityOfLevel(ParseInt(match[1].number)) ELSE <<>>

\* OpacityManager.calculateOpacity: <<>> is null, otherwise the level over 10
calculateOpacity(className) ==
  OpacityValue(MatchDigits(className, <<"o", "p", "a", "c", "i", "t", "y", "-">>))

\* this.styleSheet.insertRule(rule, this.styleSheet.cssRules.length);
\* this.processedClasses.add(className); st = [processed, sheet]
OpacityEmit(st, className, opacity) ==
  IF opacity # <<>>
  THEN [processed |-> st.processed \cup {className},
        sheet |-> Append(st.sheet,
                         [selector |-> className,
                          decls |-> <<[prop |-> <<"opacity">>,
                                       val |-> [text |-> TenthsToString(opacity[1].num),
                                                unit |-> ""]]>>])]
  ELSE st

\* OpacityManager.addOpacityStyle; st = [processed, sheet]
addOpacityStyle(st, className) ==
  IF /\ className \notin st.processed
     /\ StartsWith(className, <<"o", "p", "a", "c", "i", "t", "y", "-">>)
  THEN OpacityEmit(st, className, calculateOpacity(className))
  ELSE st

\* ---------------------------------------------------- BorderRadiusManager

IntValue(match) == IF match # <<>> THEN <<ParseInt(match[1].number)>> ELSE <<>>

\* BorderRadiusManager.calculateBorderRadius: <<>> is null
calculateBorderRadius(className) ==
  IntValue(MatchDigits(className, <<"r", "o", "u", "n", "d", "e", "d", "-">>))

BorderRadiusEmit(st, className, borderRadius) ==
  IF borderRadius # <<>>
  THEN Emit(st, className,
            [selector |-> className,
             decls |-> <<[prop |-> <<"border-radius">>,
                          val |-> [text |-> NumberToString(borderRadius[1]),
                                   unit |-> "px"]]>>])
  ELSE st

\* the body of the inner forEach of applyBorderRadiusStyles
BorderRadiusStep(st, className) ==
  IF className \notin st.processed
  THEN BorderRadiusEmit(st, className, calculateBorderRadius(className))
  ELSE st

\* -------------------------------------------------------- FontSizeManager

\* FontSizeManager.calculateFontSize: <<>> is null
calculateFontSize(className) == IntValue(MatchDigits(className, <<"f", "s", "-">>))

FontSizeEmit(st, className, fontSize) ==
  IF fontSize # <<>>
  THEN Emit(st, className,
            [selector |-> className,
             decls |-> <<[prop |-> <<"font-size">>,
                          val |-> [text |-> NumberToString(fontSize[1]),
                                   unit |-> "px"]]>>])
  ELSE st

\* the body of the inner forEach of applyFontSizeStyles
FontSizeStep(st, className) ==
  IF className \notin st.processed
  THEN FontSizeEmit(st, className, calculateFontSize(className))
  ELSE st

\* ------------------------------------------------------------------- DOM

\* element matches the attribute selector [class*="marker"]
Selected(e, marker) == \E i \in 1..Len(classList[e]) : Contains(classList[e][i], marker)

\* the class names forEach visits over document.querySelectorAll('[class*="marker"]'):
\* element by element in document order, each element's classList in order
RECURSIVE ClassNamesOf(_, _)
ClassNamesOf(els, marker) ==
  IF els = <<>> THEN <<>>
  ELSE (IF Selected(Head(els), marker) THEN classList[Head(els)] ELSE <<>>)
         \o ClassNamesOf(Tail(els), marker)

\* one entry of document.adoptedStyleSheets that is a manager's this.styleSheet
LiveSheet(m) == [owner |-> m, live |-> TRUE, rules |-> <<>>]

\* the rules of an adopted sheet, given the managers' live sheets
RulesOf(entry, sheets) == IF entry.live THEN sheets[entry.owner] ELSE entry.rules

\* ------------------------------------------------------------------ scans

\* the nested forEach of a manager's scan: every class name through its step
RECURSIVE ForEachClass(_, _, _)
ForEachClass(m, names, st) ==
  IF names = <<>> THEN st
  ELSE ForEachClass(m, Tail(names),
         CASE m = "SpaceManager" -> SpaceStep(st, Head(names))
           [] m = "ZIndexManager" -> ZIndexStep(st, Head(names))
           [] m = "OpacityManager" -> addOpacityStyle(st, Head(names))
           [] m = "BorderRadiusManager" -> BorderRadiusStep(st, Head(names))
           [] m = "FontSizeManager" -> FontSizeStep(st, Head(names)))

\* the scan loop of manager m over the elements [class*="marker"], from an
\* empty buffer
Scan(m, marker, seen) ==
  ForEachClass(m, ClassNamesOf(body, marker), [processed |-> seen, styles |-> <<>>])

\* AdoptBatch without the test of spaceStyles: a sheet is adopted on every
\* call
AdoptBatchAlways(st, r) ==
  [processed |-> r.processed,
   adopted |-> Append(st.adopted,
                      [owner |-> "SpaceManager", live |-> FALSE, rules |-> r.styles])]

\* if (spaceStyles) { new sheet; replaceSync; adoptedStyleSheets = [..., sheet] }
AdoptBatch(st, r) ==
  [processed |-> r.processed,
   adopted |-> IF r.styles # <<>>
               THEN Append(st.adopted,
                           [owner |-> "SpaceManager", live |-> FALSE,
                            rules |-> r.styles])
               ELSE st.adopted]

\* SpaceManager.applyStyles; st = [processed, adopted]
applyStyles(st) == AdoptBatch(st, Scan("SpaceManager", <<"-">>, st.processed))

\* this.styleSheet.replaceSync(styles): the sheet's rules become styles
replaceSync(sheet, styles) == styles

\* if (styles) { this.styleSheet.replaceSync(styles) }
CommitStyles(st, r) ==
  [processed |-> r.processed,
   sheet |-> IF r.styles # <<>> THEN replaceSync(st.sheet, r.styles) ELSE st.sheet]

\* ZIndexManager.applyZIndexStyles; st = [processed, sheet]
applyZIndexStyles(st) ==
  CommitStyles(st, Scan("ZIndexManager", <<"z", "-">>, st.processed))

\* OpacityManager.applyInitialOpacityStyles; st = [processed, sheet]
applyInitialOpacityStyles(st) ==
  ForEachClass("OpacityManager",
               ClassNamesOf(body, <<"o", "p", "a", "c", "i", "t", "y", "-">>), st)

\* BorderRadiusManager.applyBorderRadiusStyles; st = [processed, sheet]
applyBorderRadiusStyles(st) ==
  CommitStyles(st, Scan("BorderRadiusManager",
                        <<"r", "o", "u", "n", "d", "e", "d", "-">>, st.processed))

\* FontSizeManager.applyFontSizeStyles; st = [processed, sheet]
applyFontSizeStyles(st) ==
  CommitStyles(st, Scan("FontSizeManager", <<"f", "s", "-">>, st.processed))

\* the class names the opacity observer's callback inspects for one record
RecordClassNames(mutation) ==
  IF mutation.type = "attributes" /\ mutation.attributeName = "class"
  THEN classList[mutation.target]
  ELSE <<>>

\* the class names the callback of OpacityManager's observer passes to
\* addOpacityStyle, over the delivered records in order
RECURSIVE MutatedClassNames(_)
MutatedClassNames(mutations) ==
  IF mutations = <<>> THEN <<>>
  ELSE RecordClassNames(Head(mutations)) \o MutatedClassNames(Tail(mutations))

\* the callback of OpacityManager's observer; st = [processed, sheet]
OpacityCallback(mutations, st) ==
  ForEachClass("OpacityManager", MutatedClassNames(mutations), st)

\* throttle comparing with > instead of >=
throttleStrict(since, delay) == since > delay

\* the function SpaceManager.throttle returns: func runs when at least delay
\* has passed since it last ran
throttle(since, delay) == since >= delay

\* a manager's scan as its observer's callback runs it; st = [processed, sheet]
Rescan(m, st) ==
  CASE m = "ZIndexManager" -> applyZIndexStyles(st)
    [] m = "OpacityManager" -> OpacityCallback(pending, st)
    [] m = "BorderRadiusManager" -> applyBorderRadiusStyles(st)
    [] m = "FontSizeManager" -> applyFontSizeStyles(st)

\* ms after a sheet-owning manager's callback left r
WithSheet(ms, m, r) ==
  [ms EXCEPT !.processed[m] = r.processed, !.styleSheet[m] = r.sheet]

\* ms after the throttled applyStyles of the k-th observer left r
WithBatch(ms, k, r) ==
  [ms EXCEPT !.processed["SpaceManager"] = r.processed, !.adopted = r.adopted,
             !.observers[k].since = 0]

\* the k-th observer's callback, of manager m;
\* ms = [processed, styleSheet, adopted, observers]
CallbackOf(ms, k, m) ==
  IF m = "SpaceManager"
  THEN IF throttle(ms.observers[k].since, ThrottleDelay)
       THEN WithBatch(ms, k, applyStyles([processed |-> ms.processed[m],
                                          adopted |-> ms.adopted]))
       ELSE ms
  ELSE WithSheet(ms, m, Rescan(m, [processed |-> ms.processed[m],
                                   sheet |-> ms.styleSheet[m]]))

Callback(ms, k) == CallbackOf(ms, k, ms.observers[k].mgr)

\* the observers' callbacks k.. in creation order
RECURSIVE NotifyFrom(_, _)
NotifyFrom(ms, k) ==
  IF k > Len(ms.observers) THEN ms ELSE NotifyFrom(Callback(ms, k), k + 1)

\* new MutationObserver(...).observe(document.body, ...)
NewObserver(m) == [mgr |-> m, since |-> ThrottleDelay]

\* --------------------------------------------------------- initial states

\* the orders in which some of the elements of es can stand in the document
BodySeqs(es) ==
  {b \in UNION {[1..n -> es] : n \in 0..Cardinality(es)} :
     \A i, j \in 1..Len(b) : i # j => b[i] # b[j]}

\* The page as loaded, before the script runs: a document, a viewport.
Init ==
  /\ \E sc \in Scenarios :
       /\ vocab = sc.vocab
       /\ elems = sc.elems
       /\ widths = sc.widths
       /\ ticks = sc.ticks
       /\ body \in BodySeqs(sc.elems)
       /\ classList \in {f \in [Elements -> sc.lists] :
                           \A e \in Elements : e \notin Range(body) => f[e] = <<>>}
       /\ innerWidth \in sc.width
  /\ pc = "start"
  /\ adopted = <<>>
  /\ processed = [m \in Managers |-> {}]
  /\ styleSheet = [m \in SheetManagers |-> <<>>]
  /\ observers = <<>>
  /\ timers = {}
  /\ pending = <<>>
  /\ fired = 0
  /\ quiet = DebounceDelay
  /\ events = 0
  /\ rescan = [processed |-> {}, sheet |-> <<>>]

\* ------------------------------------------------------ the script: startup

dom == <<vocab, elems, widths, ticks, body, classList, innerWidth>>
clock == <<timers, fired, quiet, events>>

\* manager m's processed set and sheet become those of r
Store(m, r) ==
  /\ processed' = [processed EXCEPT ![m] = r.processed]
  /\ styleSheet' = [styleSheet EXCEPT ![m] = r.sheet]

\* new ScreenSize()
NewScreenSize ==
  /\ pc = "start"
  /\ pc' = "ScreenSize"
  /\ adopted' = updateDeviceType(innerWidth)
  /\ UNCHANGED <<dom, clock, rescan, processed, styleSheet, observers, pending>>

\* new SpaceManager()
NewSpaceManager ==
  /\ pc = "ScreenSize"
  /\ pc' = "SpaceManager"
  /\ processed' = [processed EXCEPT !["SpaceManager"] = {}]
  /\ observers' = Append(observers, NewObserver("SpaceManager"))
  /\ UNCHANGED <<dom, clock, rescan, adopted, styleSheet, pending>>

\* new ZIndexManager()
NewZIndexManager ==
  /\ pc = "SpaceManager"
  /\ pc' = "ZIndexManager"
  /\ adopted' = Append(adopted, LiveSheet("ZIndexManager"))
  /\ observers' = Append(observers, NewObserver("ZIndexManager"))
  /\ Store("ZIndexManager", applyZIndexStyles([processed |-> {}, sheet |-> <<>>]))
  /\ UNCHANGED <<dom, clock, rescan, pending>>

\* new OpacityManager()
NewOpacityManager ==
  /\ pc = "ZIndexManager"
  /\ pc' = "OpacityManager"
  /\ adopted' = Append(adopted, LiveSheet("OpacityManager"))
  /\ Store("OpacityManager",
           applyInitialOpacityStyles([processed |-> {}, sheet |-> <<>>]))
  /\ observers' = Append(observers, NewObserver("OpacityManager"))
  /\ rescan' = applyInitialOpacityStyles([processed |-> {}, sheet |-> <<>>])
  /\ UNCHANGED <<dom, clock, pending>>

\* new BorderRadiusManager()
NewBorderRadiusManager ==
  /\ pc = "OpacityManager"
  /\ pc' = "BorderRadiusManager"
  /\ adopted' = Append(adopted, LiveSheet("BorderRadiusManager"))
  /\ observers' = Append(observers, NewObserver("BorderRadiusManager"))
  /\ Store("BorderRadiusManager",
           applyBorderRadiusStyles([processed |-> {}, sheet |-> <<>>]))
  /\ UNCHANGED <<dom, clock, rescan, pending>>

\* new FontSizeManager() assigning document.adoptedStyleSheets its own sheet
\* alone instead of spreading the sheets adopted before
NewFontSizeManagerReplacing ==
  /\ pc = "BorderRadiusManager"
  /\ pc' = "FontSizeManager"
  /\ processed' = [processed EXCEPT !["FontSizeManager"] = {}]
  /\ styleSheet' = [styleSheet EXCEPT !["FontSizeManager"] = <<>>]
  /\ adopted' = <<LiveSheet("FontSizeManager")>>
  /\ observers' = Append(observers, NewObserver("FontSizeManager"))
  /\ UNCHANGED <<dom, clock, rescan, pending>>

\* new FontSizeManager()
NewFontSizeManager ==
  /\ pc = "BorderRadiusManager"
  /\ pc' = "FontSizeManager"
  /\ processed' = [processed EXCEPT !["FontSizeManager"] = {}]
  /\ styleSheet' = [styleSheet EXCEPT !["FontSizeManager"] = <<>>]
  /\ adopted' = Append(adopted, LiveSheet("FontSizeManager"))
  /\ observers' = Append(observers, NewObserver("FontSizeManager"))
  /\ UNCHANGED <<dom, clock, rescan, pending>>

\* CSSManager.observeDomChanges: called by the CSSManager constructor, then
\* once more by the script's last line
observeDomChanges ==
  /\ pc \in {"FontSizeManager", "CSSManager"}
  /\ pc' = IF pc = "FontSizeManager" THEN "CSSManager" ELSE "running"
  /\ observers' = observers \o
                    <<NewObserver("SpaceManager"), NewObserver("ZIndexManager"),
                      NewObserver("OpacityManager"), NewObserver("BorderRadiusManager"),
                      NewObserver("FontSizeManager")>>
  /\ UNCHANGED <<dom, clock, rescan, adopted, processed, styleSheet, pending>>

\* -------------------------------------------------------- the page's script

\* a record is queued only for a change under document.body
Record(e, rec) == IF e \in Range(body) THEN Append(pending, rec) ELSE pending

CanRecord(e) == e \in Range(body) => Len(pending) < MaxPending

\* element.classList.add(c)
AddClass(e, c) ==
  /\ pc = "running"
  /\ c \notin Range(classList[e])
  /\ CanRecord(e)
  /\ classList' = [classList EXCEPT ![e] = Append(@, c)]
  /\ pending' = Record(e, [type |-> "attributes", attributeName |-> "class",
                           target |-> e])
  /\ UNCHANGED <<pc, vocab, elems, widths, ticks, body, innerWidth, clock, adopted,
                 processed, styleSheet, observers, rescan>>

\* element.classList.remove(c)
RemoveClass(e, c) ==
  /\ pc = "running"
  /\ c \in Range(classList[e])
  /\ CanRecord(e)
  /\ classList' = [classList EXCEPT ![e] = SelectSeq(@, LAMBDA x : x # c)]
  /\ pending' = Record(e, [type |-> "attributes", attributeName |-> "class",
                           target |-> e])
  /\ UNCHANGED <<pc, vocab, elems, widths, ticks, body, innerWidth, clock, adopted,
                 processed, styleSheet, observers, rescan>>

\* document.body.insertBefore(e, ...): e becomes the i-th element
InsertElement(e, i) ==
  /\ pc = "running"
  /\ e \notin Range(body)
  /\ i \in 1..(Len(body) + 1)
  /\ Len(pending) < MaxPending
  /\ body' = SubSeq(body, 1, i - 1) \o <<e>> \o SubSeq(body, i, Len(body))
  /\ pending' = Append(pending, [type |-> "childList", attributeName |-> "",
                                 target |-> "body"])
  /\ UNCHANGED <<pc, vocab, elems, widths, ticks, classList, innerWidth, clock, adopted,
                 processed, styleSheet, observers, rescan>>

\* e.remove()
RemoveElement(e) ==
  /\ pc = "running"
  /\ e \in Range(body)
  /\ Len(pending) < MaxPending
  /\ body' = SelectSeq(body, LAMBDA x : x # e)
  /\ pending' = Append(pending, [type |-> "childList", attributeName |-> "",
                                 target |-> "body"])
  /\ UNCHANGED <<pc, vocab, elems, widths, ticks, classList, innerWidth, clock, adopted,
                 processed, styleSheet, observers, rescan>>

\* ------------------------------------------------------------------ events

\* the managers' state becomes ms
Delivered(ms) ==
  /\ processed' = ms.processed
  /\ styleSheet' = ms.styleSheet
  /\ adopted' = ms.adopted
  /\ observers' = ms.observers

\* the queued records are delivered: every observer's callback runs, in
\* creation order, before any other task
Notify ==
  /\ pending # <<>>
  /\ Delivered(NotifyFrom([processed |-> processed, styleSheet |-> styleSheet,
                           adopted |-> adopted, observers |-> observers], 1))
  /\ rescan' = applyInitialOpacityStyles(rescan)
  /\ pending' = <<>>
  /\ UNCHANGED <<pc, dom, clock>>

\* debounce without the clearTimeout: the earlier timeouts stay pending
debounceKeeping(pendingTimers, delay) == pendingTimers \cup {delay}

\* the function ScreenSize.debounce returns, called on a resize event:
\* clearTimeout(timeout); timeout = setTimeout(..., delay)
debounce(pendingTimers, delay) == {delay}

\* the window is resized to width w
Resize(w) ==
  /\ pc = "running"
  /\ pending = <<>>
  /\ w \in widths
  /\ timers = {} \/ events < MaxBurst
  /\ innerWidth' = w
  /\ timers' = debounce(timers, DebounceDelay)
  /\ fired' = 0
  /\ quiet' = 0
  /\ events' = IF timers = {} THEN 1 ELSE events + 1
  /\ UNCHANGED <<pc, vocab, elems, widths, ticks, body, classList, adopted, processed,
                 styleSheet, observers, pending, rescan>>

\* the timeout set by the debounced handler expires: updateDeviceType runs
FireTimer ==
  /\ pending = <<>>
  /\ 0 \in timers
  /\ timers' = timers \ {0}
  /\ adopted' = updateDeviceType(innerWidth)
  /\ fired' = fired + 1
  /\ UNCHANGED <<pc, dom, quiet, events, processed, styleSheet, observers, pending,
                 rescan>>

\* d milliseconds pass; no timeout is overrun
Tick(d) ==
  /\ pc = "running"
  /\ pending = <<>>
  /\ \A t \in timers : d <= t
  /\ timers' = {t - d : t \in timers}
  /\ quiet' = IF quiet + d > DebounceDelay THEN DebounceDelay ELSE quiet + d
  /\ observers' = [k \in 1..Len(observers) |->
                     IF observers[k].mgr = "SpaceManager"
                     THEN [observers[k] EXCEPT
                             !.since = IF @ + d > ThrottleDelay THEN ThrottleDelay
                                       ELSE @ + d]
                     ELSE observers[k]]
  /\ UNCHANGED <<pc, dom, fired, events, adopted, processed, styleSheet, pending,
                 rescan>>

Next ==
  \/ NewScreenSize
  \/ NewSpaceManager
  \/ NewZIndexManager
  \/ NewOpacityManager
  \/ NewBorderRadiusManager
  \/ NewFontSizeManager
  \/ observeDomChanges
  \/ \E e \in elems, c \in vocab : AddClass(e, c)
  \/ \E e \in elems, c \in vocab : RemoveClass(e, c)
  \/ \E e \in elems, i \in 1..Cardinality(elems) : InsertElement(e, i)
  \/ \E e \in elems : RemoveElement(e)
  \/ Notify
  \/ \E w \in widths : Resize(w)
  \/ FireTimer
  \/ \E d \in ticks : Tick(d)

Spec == Init /\ [][Next]_vars

\* ============================================================== properties

\* the class names on the elements of the document
DocClassNames == UNION {Range(classList[e]) : e \in Range(body)}

\* className matches manager m's pattern with a value m accepts
Qualifies(m, className) ==
  CASE m = "SpaceManager" -> calculateSpaceValue(className) # <<>>
    [] m = "ZIndexManager" -> calculateZIndex(className) # <<>>
    [] m = "OpacityManager" -> calculateOpacity(className) # <<>>
    [] m = "BorderRadiusManager" -> calculateBorderRadius(className) # <<>>
    [] m = "FontSizeManager" -> calculateFontSize(className) # <<>>

\* the rules of manager m in the sheets of an adoptedStyleSheets value
InEffect(m, adoptedSeq, sheets) ==
  UNION {Range(RulesOf(adoptedSeq[i], sheets)) :
           i \in {k \in 1..Len(adoptedSeq) : adoptedSeq[k].owner = m}}

\* the rules manager m holds in the stylesheets it generated
Generated(m, adoptedSeq, sheets) ==
  IF m = "SpaceManager" THEN InEffect(m, adoptedSeq, sheets) ELSE Range(sheets[m])

HasRule(rules, className) == \E r \in rules : r.selector = className

\* every class name of the document that qualifies for m is in seen
Covered(m, seen) == \A c \in DocClassNames : Qualifies(m, c) => c \in seen

\* a step that delivers the queued mutation records
NotifyStep == pending # <<>> /\ pending' = <<>>

\* a step in which the debounced handler's timeout runs updateDeviceType
RecomputeStep == fired' = fired + 1

\* a step that is a resize event
ResizeStep == events' # events \/ (timers = {} /\ timers' # {})

\* the threshold table of the breakpoint tracker: <<breakpoint, container>>
Table(w) ==
  CASE w < 576 -> <<"xs", "100%">>
    [] 576 <= w /\ w < 768 -> <<"sm", "540px">>
    [] 768 <= w /\ w < 992 -> <<"md", "720px">>
    [] 992 <= w /\ w < 1200 -> <<"lg", "960px">>
    [] 1200 <= w /\ w < 1400 -> <<"xl", "1140px">>
    [] w >= 1400 -> <<"xxl", "1320px">>

\* one sheet, one :root rule, both custom properties as the table gives them
PublishedFor(w) ==
  <<[owner |-> "ScreenSize", live |-> FALSE,
     rules |-> <<[selector |-> <<":", "r", "o", "o", "t">>,
                  decls |-> <<[prop |-> <<"--device-type">>, val |-> Table(w)[1]],
                              [prop |-> <<"--container">>, val |-> Table(w)[2]]>>]>>]>>

\* C1: on every scan, every rule a category's generated stylesheet held before
\* the scan is still in it, unchanged, after the scan.
C1_RulesOnlyAppended ==
  [][NotifyStep =>
       \A m \in Managers :
         Generated(m, adopted, styleSheet) \subseteq Generated(m, adopted', styleSheet')]_vars

\* C2: when the CSSManager constructor has returned, every class name of the
\* initial document that qualifies for a category is in that category's
\* processed set and has a generated rule.
C2_InitialScanByAll ==
  pc = "CSSManager" =>
    \A m \in Managers :
      \A c \in DocClassNames :
        Qualifies(m, c) =>
          c \in processed[m] /\ HasRule(Generated(m, adopted, styleSheet), c)

\* C3: a breakpoint recompute leaves every category's rules in effect in
\* document.adoptedStyleSheets and changes no processed set and no sheet.
C3_RecomputeKeepsRules ==
  [][RecomputeStep =>
       /\ \A m \in Managers :
            InEffect(m, adopted, styleSheet) \subseteq InEffect(m, adopted', styleSheet')
       /\ processed' = processed
       /\ styleSheet' = styleSheet]_vars

FullRescanManagers == Managers \ {"OpacityManager"}

\* some observer of the spacing manager last ran applyStyles at least
\* ThrottleDelay ago
SpaceScanDue ==
  \E k \in 1..Len(observers) :
    observers[k].mgr = "SpaceManager" /\ observers[k].since >= ThrottleDelay

\* C4 as claimed: after every notification, every class name of the document
\* that qualifies for a full-rescan category is in its processed set.
C4_EveryNotificationScans ==
  [][NotifyStep => \A m \in FullRescanManagers : Covered(m, processed'[m])]_vars

\* C4 as amended: that holds after every notification for z-index,
\* border-radius and font-size; for spacing it holds when ThrottleDelay has
\* passed since the observer's last scan, and otherwise the notification is
\* dropped and the spacing manager's processed set stays as it was.
C4_ScansUnlessThrottled ==
  [][NotifyStep =>
       /\ \A m \in FullRescanManagers \ {"SpaceManager"} : Covered(m, processed'[m])
       /\ SpaceScanDue => Covered("SpaceManager", processed'["SpaceManager"])
       /\ ~SpaceScanDue => processed'["SpaceManager"] = processed["SpaceManager"]]_vars

\* C4 witness: the spacing manager has scanned on a notification, and a later
\* notification inside the throttle window left a qualifying class name out.
C4_Witness ==
  /\ pc = "running"
  /\ pending = <<>>
  /\ processed["SpaceManager"] # {}
  /\ ~SpaceScanDue
  /\ ~Covered("SpaceManager", processed["SpaceManager"])
  /\ Covered("ZIndexManager", processed["ZIndexManager"])

\* C5: the opacity manager's processed set and rules are those a full
\* rescan on every notification would have produced.
C5_TargetedEqualsRescan ==
  /\ processed["OpacityManager"] = rescan.processed
  /\ Range(styleSheet["OpacityManager"]) = Range(rescan.sheet)

\* C6: a resize event recomputes nothing and restarts the quiet period; the
\* recompute happens once per burst, DebounceDelay after the burst's last
\* event, and publishes the breakpoint of the width the last event left.
C6_TrailingEdgeDebounce ==
  [][/\ ResizeStep => adopted' = adopted /\ timers' = {DebounceDelay}
     /\ RecomputeStep =>
          /\ quiet = DebounceDelay
          /\ fired = 0
          /\ timers' = {}
          /\ adopted' = PublishedFor(innerWidth)
     /\ timers # {} => fired = 0
     /\ (timers # {} /\ timers' = {}) => RecomputeStep]_vars

\* C6 witness: a burst of at least two resize events has been answered by
\* its one recompute.
C6_Witness ==
  /\ events >= 2
  /\ fired = 1
  /\ timers = {}
  /\ adopted = PublishedFor(innerWidth)

\* C7: the breakpoint and container computed for the viewport width are
\* those of the threshold table, with exclusive upper bounds.
C7_BreakpointTable ==
  /\ getDeviceTypeAndContainer(innerWidth) =
       [deviceType |-> Table(innerWidth)[1], container |-> Table(innerWidth)[2]]
  /\ innerWidth = 575 => getDeviceTypeAndContainer(innerWidth).deviceType = "xs"
  /\ innerWidth = 576 => getDeviceTypeAndContainer(innerWidth).deviceType = "sm"
  /\ innerWidth = 767 => getDeviceTypeAndContainer(innerWidth).deviceType = "sm"
  /\ innerWidth = 768 => getDeviceTypeAndContainer(innerWidth).deviceType = "md"
  /\ innerWidth = 1399 => getDeviceTypeAndContainer(innerWidth).deviceType = "xl"
  /\ innerWidth = 1400 => getDeviceTypeAndContainer(innerWidth).deviceType = "xxl"

\* C7 witness: the window was resized to 1399 and xl / 1140px was published.
C7_Witness ==
  /\ innerWidth = 1399
  /\ fired = 1
  /\ adopted[1].rules[1].decls[1].val = "xl"
  /\ adopted[1].rules[1].decls[2].val = "1140px"

\* C8: right after the ScreenSize constructor and after every recompute,
\* document.adoptedStyleSheets is exactly the one sheet with the :root rule
\* for the width at that moment.
C8_OnlyRootSheetAdopted ==
  [][((pc = "start" /\ pc' = "ScreenSize") \/ RecomputeStep) =>
       adopted' = PublishedFor(innerWidth')]_vars

\* C8 witness: a recompute has run after the z-index manager had rules in an
\* adopted sheet, and only the root sheet is adopted.
C8_Witness ==
  /\ fired = 1
  /\ styleSheet["ZIndexManager"] # <<>>
  /\ Len(adopted) = 1
  /\ adopted[1].owner = "ScreenSize"

\* a second scan from the processed set seen1 emits nothing and adds nothing
SecondScanEmpty(m, marker, seen1) ==
  Scan(m, marker, seen1) = [processed |-> seen1, styles |-> <<>>]

NoDuplicate(rules) ==
  \A i, j \in 1..Len(rules) : i # j => rules[i].selector # rules[j].selector

SpaceNow == [processed |-> processed["SpaceManager"], adopted |-> adopted]

SheetNow(m) == [processed |-> processed[m], sheet |-> styleSheet[m]]

\* C9: for every category, a scan run again on the unchanged document emits
\* no rule, duplicates no rule and leaves the processed set as the first
\* scan left it.
C9_ScanIdempotent ==
  /\ applyStyles(applyStyles(SpaceNow)) = applyStyles(SpaceNow)
  /\ SecondScanEmpty("SpaceManager", <<"-">>, applyStyles(SpaceNow).processed)
  /\ applyZIndexStyles(applyZIndexStyles(SheetNow("ZIndexManager")))
       = applyZIndexStyles(SheetNow("ZIndexManager"))
  /\ SecondScanEmpty("ZIndexManager", <<"z", "-">>,
                     applyZIndexStyles(SheetNow("ZIndexManager")).processed)
  /\ NoDuplicate(applyZIndexStyles(SheetNow("ZIndexManager")).sheet)
  /\ applyInitialOpacityStyles(applyInitialOpacityStyles(SheetNow("OpacityManager")))
       = applyInitialOpacityStyles(SheetNow("OpacityManager"))
  /\ NoDuplicate(applyInitialOpacityStyles(SheetNow("OpacityManager")).sheet)
  /\ applyBorderRadiusStyles(applyBorderRadiusStyles(SheetNow("BorderRadiusManager")))
       = applyBorderRadiusStyles(SheetNow("BorderRadiusManager"))
  /\ SecondScanEmpty("BorderRadiusManager", <<"r", "o", "u", "n", "d", "e", "d", "-">>,
                     applyBorderRadiusStyles(SheetNow("BorderRadiusManager")).processed)
  /\ NoDuplicate(applyBorderRadiusStyles(SheetNow("BorderRadiusManager")).sheet)
  /\ applyFontSizeStyles(applyFontSizeStyles(SheetNow("FontSizeManager")))
       = applyFontSizeStyles(SheetNow("FontSizeManager"))
  /\ SecondScanEmpty("FontSizeManager", <<"f", "s", "-">>,
                     applyFontSizeStyles(SheetNow("FontSizeManager")).processed)
  /\ NoDuplicate(applyFontSizeStyles(SheetNow("FontSizeManager")).sheet)

\* C9 witness: the z-index manager has scanned a document that still carries
\* a class name it processed, and nothing has changed since.
C9_Witness ==
  /\ pc = "running"
  /\ pending = <<>>
  /\ processed["ZIndexManager"] \cap DocClassNames # {}
  /\ styleSheet["ZIndexManager"] # <<>>

\* className is opacity-<digits>
IsOpacityName(className) ==
  /\ StartsWith(className, <<"o", "p", "a", "c", "i", "t", "y", "-">>)
  /\ Len(className) > 8
  /\ \A i \in 9..Len(className) : IsDigit(className[i])

\* the d of opacity-<d>
Level(className) == ParseInt(SubSeq(className, 9, Len(className)))

\* d/10 as it is written: 0.1 ... 0.9, 1
Tenth(d) == IF d = 10 THEN <<"1">> ELSE <<"0", ".", Digits[d + 1]>>

\* the rule .className { opacity: d/10 }
OpacityRuleFor(className) ==
  [selector |-> className,
   decls |-> <<[prop |-> <<"opacity">>,
                val |-> [text |-> Tenth(Level(className)), unit |-> ""]]>>]

\* C10: a class name opacity-<d> yields the rule opacity d/10 exactly when
\* 1 <= d <= 10; for d = 0 or d >= 11 it is never in the processed set, has
\* no rule, and examining it again changes nothing.
C10_OpacityRange ==
  \A c \in vocab :
    IsOpacityName(c) =>
      /\ (Level(c) >= 1 /\ Level(c) <= 10) =>
            addOpacityStyle([processed |-> {}, sheet |-> <<>>], c)
              = [processed |-> {c}, sheet |-> <<OpacityRuleFor(c)>>]
      /\ (Level(c) = 0 \/ Level(c) >= 11) =>
            /\ c \notin processed["OpacityManager"]
            /\ ~HasRule(Range(styleSheet["OpacityManager"]), c)
            /\ addOpacityStyle(SheetNow("OpacityManager"), c) = SheetNow("OpacityManager")
      /\ c \in processed["OpacityManager"] =>
            /\ Level(c) >= 1 /\ Level(c) <= 10
            /\ OpacityRuleFor(c) \in Range(styleSheet["OpacityManager"])
      /\ HasRule(Range(styleSheet["OpacityManager"]), c) => c \in processed["OpacityManager"]

\* C10 witness: opacity-1 and opacity-10 have their rules while opacity-0 and
\* opacity-11, on an element of the document, have been examined and have none.
C10_Witness ==
  /\ pc = "running"
  /\ pending = <<>>
  /\ {cOp1, cOp10} \subseteq processed["OpacityManager"]
  /\ {cOp0, cOp11} \subseteq DocClassNames
  /\ Len(styleSheet["OpacityManager"]) = 2

\* the class names the page can ever carry
Names == vocab \cup UNION {Range(classList[e]) : e \in Elements}

\* the index of the first "-" of a class name
DashAt(className) == Min({i \in 1..Len(className) : className[i] = "-"})

\* the digits d of a class name <prefix>-<d> or <prefix>-<d>n, as a number
DigitsValue(className) ==
  ParseInt(SubSeq(className, DashAt(className) + 1,
                  DigitRunEnd(className, DashAt(className) + 1) - 1))

EndsInN(className) == className[Len(className)] = "n"

\* d, negated when the name ends in n
Signed(className) ==
  IF EndsInN(className) THEN 0 - DigitsValue(className) ELSE DigitsValue(className)

\* a number as written, without its sign
Unsigned(text) == IF text # <<>> /\ text[1] = "-" THEN Tail(text) ELSE text

SignOf(text) == IF text # <<>> /\ text[1] = "-" THEN 0 - 1 ELSE 1

\* u is digits, a point and exactly two digits
TwoDecimalDigits(u) ==
  /\ Len(u) >= 4
  /\ u[Len(u) - 2] = "."
  /\ \A i \in 1..Len(u) : i # Len(u) - 2 => IsDigit(u[i])

\* text is a decimal number written with exactly two fraction digits
TwoDecimals(text) == TwoDecimalDigits(Unsigned(text))

HundredthsOfDigits(u) ==
  100 * ParseInt(SubSeq(u, 1, Len(u) - 3)) + ParseInt(SubSeq(u, Len(u) - 1, Len(u)))

\* the number such a text denotes, in hundredths
Hundredths(text) == SignOf(text) * HundredthsOfDigits(Unsigned(text))

\* text is an integer as written
IsInteger(text) ==
  /\ Unsigned(text) # <<>>
  /\ \A i \in 1..Len(Unsigned(text)) : IsDigit(Unsigned(text)[i])

\* the integer such a text denotes
IntegerOf(text) == SignOf(text) * ParseInt(Unsigned(text))

\* val is the documented transform of className's digits for category m
TransformOf(m, className, val) ==
  CASE m = "SpaceManager" ->
         /\ val.unit = "rem"
         /\ TwoDecimals(val.text)
         /\ Hundredths(val.text) = 25 * Signed(className)
    [] m = "ZIndexManager" ->
         /\ val.unit = ""
         /\ IsInteger(val.text)
         /\ IntegerOf(val.text) = Signed(className)
    [] m \in {"BorderRadiusManager", "FontSizeManager"} ->
         /\ val.unit = "px"
         /\ IsInteger(val.text)
         /\ IntegerOf(val.text) = DigitsValue(className)

\* every declaration of rule carries the transform of its class name's digits
RuleValueOK(m, rule) ==
  /\ rule.decls # <<>>
  /\ \A i \in 1..Len(rule.decls) : TransformOf(m, rule.selector, rule.decls[i].val)

\* the rules category m's scan step emits for one class name not seen before
EmittedFor(m, className) ==
  ForEachClass(m, <<className>>, [processed |-> {}, styles |-> <<>>]).styles

NumericManagers == Managers \ {"OpacityManager"}

\* C11: for spacing, z-index, border-radius and font-size, the value of every
\* generated declaration is the transform of its class name's digits d:
\* d * 0.25 rem written with two decimals, negated when the name ends in n;
\* z-index d, negated when the name ends in n; d px; d px.
C11_NumericTransform ==
  \A m \in NumericManagers :
    /\ \A rule \in Generated(m, adopted, styleSheet) : RuleValueOK(m, rule)
    /\ \A c \in Names :
         Qualifies(m, c) =>
           /\ Len(EmittedFor(m, c)) = 1
           /\ EmittedFor(m, c)[1].selector = c
           /\ RuleValueOK(m, EmittedFor(m, c)[1])

\* C11 witness: the spacing manager has generated margin -1.00rem for m-4n
\* and padding 2.00rem for p-8.
C11_Witness ==
  /\ [selector |-> cM4n,
      decls |-> <<[prop |-> <<"margin">>,
                   val |-> [text |-> <<"-", "1", ".", "0", "0">>, unit |-> "rem"]]>>]
       \in InEffect("SpaceManager", adopted, styleSheet)
  /\ [selector |-> cP8,
      decls |-> <<[prop |-> <<"padding">>,
                   val |-> [text |-> <<"2", ".", "0", "0">>, unit |-> "rem"]]>>]
       \in InEffect("SpaceManager", adopted, styleSheet)

\* the prefix of a spacing class name: what stands before its first "-"
PrefixOf(className) == SubSeq(className, 1, DashAt(className) - 1)

BoxOf(prefix) == IF prefix[1] = "m" THEN "margin" ELSE "padding"

SideOf(ch) ==
  CASE ch = "t" -> "-top"
    [] ch = "b" -> "-bottom"
    [] ch = "l" -> "-left"
    [] ch = "r" -> "-right"

\* the fixed table: the properties a spacing prefix sets, in order
TableProps(prefix) ==
  IF Len(prefix) = 1 THEN << <<BoxOf(prefix)>> >>
  ELSE IF prefix[2] = "x"
  THEN << <<BoxOf(prefix), "-left">>, <<BoxOf(prefix), "-right">> >>
  ELSE IF prefix[2] = "y"
  THEN << <<BoxOf(prefix), "-top">>, <<BoxOf(prefix), "-bottom">> >>
  ELSE << <<BoxOf(prefix), SideOf(prefix[2])>> >>

\* rule sets exactly the properties of the table, all with one value
TableRule(rule) ==
  /\ [i \in 1..Len(rule.decls) |-> rule.decls[i].prop] = TableProps(PrefixOf(rule.selector))
  /\ \A i, j \in 1..Len(rule.decls) : rule.decls[i].val = rule.decls[j].val

\* every prefix the spacing pattern can match
PatternPrefixes ==
  {<<a>> \o b : a \in {"m", "p"},
                b \in {<<>>, <<"t">>, <<"r">>, <<"b">>, <<"l">>, <<"x">>, <<"y">>}}

\* C12: every spacing rule sets exactly the properties the fixed table gives
\* for its prefix (one for m, p and the single sides, left and right for
\* mx/px, top and bottom for my/py), all with the same value; every prefix the
\* pattern can match is in cssPropertyMap, so a match always yields a rule.
C12_SpacingPrefixTable ==
  /\ PatternPrefixes = DOMAIN cssPropertyMap
  /\ \A rule \in InEffect("SpaceManager", adopted, styleSheet) : TableRule(rule)
  /\ \A c \in Names :
       SpaceMatch(c) # <<>> =>
         /\ SpaceMatch(c)[1].styleType \in DOMAIN cssPropertyMap
         /\ Len(EmittedFor("SpaceManager", c)) = 1
         /\ EmittedFor("SpaceManager", c)[1].selector = c
         /\ TableRule(EmittedFor("SpaceManager", c)[1])

\* C12 witness: mx-6 has its rule in effect and it sets margin-left and
\* margin-right, both to 1.50rem.
C12_Witness ==
  [selector |-> <<"m", "x", "-", "6">>,
   decls |-> <<[prop |-> <<"margin", "-left">>,
                val |-> [text |-> <<"1", ".", "5", "0">>, unit |-> "rem"]],
               [prop |-> <<"margin", "-right">>,
                val |-> [text |-> <<"1", ".", "5", "0">>, unit |-> "rem"]]>>]
    \in InEffect("SpaceManager", adopted, styleSheet)

FourClasses == <<cP8, cRounded12, cZ5n, cFs20>>

\* the document's only classes are those of one element, p-8 rounded-12 z-5n
\* fs-20
OneElementPage ==
  \E e \in Range(body) :
    /\ classList[e] = FourClasses
    /\ \A f \in Range(body) \ {e} : classList[f] = <<>>

\* every rule of the adopted sheets other than the breakpoint root sheet, in
\* the sheets' order
RECURSIVE UtilityRules(_, _)
UtilityRules(adoptedSeq, sheets) ==
  IF adoptedSeq = <<>> THEN <<>>
  ELSE (IF Head(adoptedSeq).owner = "ScreenSize" THEN <<>>
        ELSE RulesOf(Head(adoptedSeq), sheets))
         \o UtilityRules(Tail(adoptedSeq), sheets)

\* the live sheet of every sheet-owning manager is adopted: no breakpoint
\* recompute has replaced document.adoptedStyleSheets since startup
SheetsAdopted ==
  \A m \in SheetManagers : \E i \in 1..Len(adopted) : adopted[i] = LiveSheet(m)

OneRule(className, prop, text, unit) ==
  [selector |-> className,
   decls |-> <<[prop |-> <<prop>>, val |-> [text |-> text, unit |-> unit]]>>]

\* the four rules of the end-to-end scenario, by category
FourRules ==
  [m \in Managers |->
     CASE m = "SpaceManager" -> {OneRule(cP8, "padding", <<"2", ".", "0", "0">>, "rem")}
       [] m = "BorderRadiusManager" ->
            {OneRule(cRounded12, "border-radius", <<"1", "2">>, "px")}
       [] m = "ZIndexManager" -> {OneRule(cZ5n, "z-index", <<"-", "5">>, "")}
       [] m = "FontSizeManager" -> {OneRule(cFs20, "font-size", <<"2", "0">>, "px")}
       [] m = "OpacityManager" -> {}]

Fresh(rules, seen) ==
  /\ NoDuplicate(rules)
  /\ \A i \in 1..Len(rules) : rules[i].selector \notin seen

\* the rules a step wrote to a live sheet: those appended to the opacity
\* sheet, the batch that replaced the contents of another manager's sheet
WrittenTo(m, before, after) ==
  IF m = "OpacityManager" THEN SubSeq(after, Len(before) + 1, Len(after))
  ELSE IF after = before THEN <<>> ELSE after

\* C14: no step removes a class name from a processed set, and every rule a
\* step generates is for a class name that was not in the processed set
\* before the step, at most one rule per class name: a processed class name
\* is never processed again, whatever happens to the elements carrying it.
C14_ProcessedMonotonic ==
  [][/\ \A m \in Managers : processed[m] \subseteq processed'[m]
     /\ \A m \in SheetManagers :
          Fresh(WrittenTo(m, styleSheet[m], styleSheet'[m]), processed[m])
     /\ NotifyStep =>
          /\ SubSeq(adopted', 1, Len(adopted)) = adopted
          /\ Fresh(UtilityRules(SubSeq(adopted', Len(adopted) + 1, Len(adopted')),
                                styleSheet'),
                   processed["SpaceManager"])]_vars

\* C14 witness: the element carrying the processed class name z-5 has been
\* removed from the document and inserted again, and both records wait for
\* delivery.
C14_Witness ==
  /\ pc = "running"
  /\ Cardinality(elems) = 1
  /\ Len(pending) = 2
  /\ \A i \in 1..2 : pending[i].type = "childList"
  /\ cZ5 \in processed["ZIndexManager"]
  /\ cZ5 \in DocClassNames
  /\ styleSheet["ZIndexManager"] # <<>>

\* what category m's scan step does with one class name, from its present
\* processed set and an empty buffer or sheet
StepOn(m, className) ==
  IF m = "OpacityManager"
  THEN addOpacityStyle([processed |-> processed[m], sheet |-> <<>>], className)
  ELSE ForEachClass(m, <<className>>, [processed |-> processed[m], styles |-> <<>>])

\* that step left the processed set and the buffer or sheet as they were
Ignored(m, st) ==
  /\ st.processed = processed[m]
  /\ IF m = "OpacityManager" THEN st.sheet = <<>> ELSE st.styles = <<>>

\* className holds lit followed by a digit
DigitAfter(className, lit) ==
  \E i \in 1..Len(className) :
    /\ PrefixAt(className, i, lit)
    /\ i + Len(lit) <= Len(className)
    /\ IsDigit(className[i + Len(lit)])

\* className matches the pattern of category m
MatchesPattern(m, className) ==
  CASE m = "SpaceManager" ->
         \E pre \in PatternPrefixes : DigitAfter(className, Append(pre, "-"))
    [] m = "ZIndexManager" -> DigitAfter(className, <<"z", "-">>)
    [] m = "OpacityManager" ->
         DigitAfter(className, <<"o", "p", "a", "c", "i", "t", "y", "-">>)
    [] m = "BorderRadiusManager" ->
         DigitAfter(className, <<"r", "o", "u", "n", "d", "e", "d", "-">>)
    [] m = "FontSizeManager" -> DigitAfter(className, <<"f", "s", "-">>)

\* in every state: a class name that does not match a category's pattern is
\* ignored by its scan step; the members of its processed set and the class
\* names of its rules match the pattern
NonMatchingIgnored ==
  \A m \in Managers :
    /\ \A c \in Names : ~MatchesPattern(m, c) => Ignored(m, StepOn(m, c))
    /\ \A c \in processed[m] : MatchesPattern(m, c)
    /\ \A rule \in Generated(m, adopted, styleSheet) : MatchesPattern(m, rule.selector)

\* on every step: a class name that enters a processed set has its rule
\* among the rules that step wrote
ProcessedWithRule ==
  /\ \A m \in SheetManagers :
       \A c \in processed'[m] \ processed[m] :
         HasRule(Range(WrittenTo(m, styleSheet[m], styleSheet'[m])), c)
  /\ \A c \in processed'["SpaceManager"] \ processed["SpaceManager"] :
       HasRule(Range(UtilityRules(SubSeq(adopted', Len(adopted) + 1, Len(adopted')),
                                  styleSheet')), c)

\* C15: a class name that does not match a category's pattern yields no rule
\* from it and never enters its processed set; every member of a processed
\* set matched the pattern and had its rule emitted in the step that added it.
C15_NonMatchingIgnored ==
  []NonMatchingIgnored /\ [][ProcessedWithRule]_vars

\* C15 witness: the malformed name z-n is on an element of the document, the
\* z-index manager has scanned it, and it has no rule and is in no processed
\* set.
C15_Witness ==
  /\ pc = "running"
  /\ pending = <<>>
  /\ cZn \in DocClassNames
  /\ \A m \in Managers : processed[m] = {}
  /\ styleSheet["ZIndexManager"] = <<>>

\* the class names that have a rule in a sheet
Selectors(rules) == {rules[i].selector : i \in 1..Len(rules)}

\* the sheet incremental insertion would hold after the scans so far: one
\* rule for every class name processed, as the opacity manager's sheet does
InsertionHolds(m, seen) == Selectors(styleSheet[m]) = seen

\* C16: committing a scan's buffer by replacing the sheet's contents leaves
\* the category's sheet with the same rules as incremental insertion does:
\* after any sequence of scans every sheet-owning category's sheet holds a
\* rule for each class name it has processed.
C16_CommitStrategiesEquivalent ==
  \A m \in SheetManagers : InsertionHolds(m, processed[m])

\* incremental insertion on its own keeps one rule per processed class name
InsertionKeepsRules == InsertionHolds("OpacityManager", processed["OpacityManager"])

\* the managers' state as the observers' callbacks take it
Now ==
  [processed |-> processed, styleSheet |-> styleSheet, adopted |-> adopted,
   observers |-> observers]

\* that state with one observer per manager: those the constructors created
Single(ms) == [ms EXCEPT !.observers = SubSeq(ms.observers, 1, Cardinality(Managers))]

\* two outcomes of a notification agree on the processed sets, the sheets,
\* the adopted sheets and the state of the observers they share
SameEffect(a, b) ==
  /\ a.processed = b.processed
  /\ a.styleSheet = b.styleSheet
  /\ a.adopted = b.adopted
  /\ SubSeq(a.observers, 1, Len(b.observers)) = b.observers

\* the observers of one manager are in the same state
InStep(obs) ==
  \A j, k \in 1..Len(obs) : obs[j].mgr = obs[k].mgr => obs[j] = obs[k]

\* no class name has two rules in the adopted sheets
NoRuleTwice(ms) == NoDuplicate(UtilityRules(ms.adopted, ms.styleSheet))

StartupSheets ==
  PublishedFor(innerWidth)
    \o <<LiveSheet("ZIndexManager"), LiveSheet("OpacityManager"),
          LiveSheet("BorderRadiusManager"), LiveSheet("FontSizeManager")>>

\* C18: when the construction of the CSSManager completes,
\* document.adoptedStyleSheets is the breakpoint root sheet followed by the
\* live sheets of the z-index, opacity, border-radius and font-size
\* managers, in that order, each once; and as long as no resize event has
\* happened these five stay its first five members.
C18_StartupKeepsSheets ==
  /\ pc = "CSSManager" => adopted = StartupSheets
  /\ (pc = "running" /\ events = 0) =>
       /\ Len(adopted) >= 5
       /\ SubSeq(adopted, 1, 5) = StartupSheets
       /\ \A i \in 6..Len(adopted) : adopted[i].owner = "SpaceManager"

\* C18 witness: construction has completed on a page whose z-index class was
\* scanned by the constructor, and five sheets are adopted.
C18_Witness ==
  /\ pc = "CSSManager"
  /\ styleSheet["ZIndexManager"] # <<>>
  /\ Len(adopted) = 5
  /\ adopted[1].owner = "ScreenSize"
  /\ adopted[5] = LiveSheet("FontSizeManager")

\* C19: in every state and for every category, a class name is in the
\* processed set exactly when a rule for it is in a sheet that is a member
\* of document.adoptedStyleSheets.
C19_ProcessedIffInEffect ==
  \A m \in Managers :
    \A c \in Names \cup processed[m] :
      c \in processed[m] <=> HasRule(InEffect(m, adopted, styleSheet), c)

\* C20: whenever a step adds a class name to a processed set, the rule it
\* wrote for that class name is, after the step, in a sheet that is a member
\* of document.adoptedStyleSheets.
C20_EmittedRuleTakesEffect ==
  [][\A m \in Managers :
       \A c \in processed'[m] \ processed[m] :
         HasRule(InEffect(m, adopted', styleSheet'), c)]_vars

====
